---- MODULE Spec2Model ----
(***************************************************************************)
(* Model of the Kijiji rental scraper (src/scraper.py, with the legacy     *)
(* src/Map_rent_places.py de-duplication).                                 *)
(*                                                                         *)
(* Python values are tagged records:                                       *)
(*   [t |-> "null"]              None / JSON null                          *)
(*   [t |-> "num",  n |-> 47]    a number (coordinates are scaled integers)*)
(*   [t |-> "str",  s |-> "u1"]  a str                                     *)
(*   [t |-> "chars", c |-> <<"$","9","5","0">>]  a str kept by character   *)
(*   [t |-> "obj",  f |-> [k |-> v]]  a dict                               *)
(*   [t |-> "list", xs |-> <<..>>]    a list                               *)
(* A call that can raise returns [exc |-> "", val |-> v] or                *)
(* [exc |-> "TypeError", val |-> partial].                                 *)
(***************************************************************************)
EXTENDS Integers, Sequences, FiniteSets, TLC

\* ------------------------------------------------------------------ bounds
MaxPagesCfg == 3
MaxListings == 3
MaxItems == 2
MaxBlocks == 2
MaxRows == 4
MaxPriceParts == 3
MaxRetries == 3
MaxLegacyItems == 2
MaxElements == 2
MaxPagesLong == 10
MaxLongListings == 13
MaxSampleListings == 22

\* ------------------------------------------------------- Python values
JNull == [t |-> "null"]
JNum(n) == [t |-> "num", n |-> n]
JStr(s) == [t |-> "str", s |-> s]
JChars(c) == [t |-> "chars", c |-> c]
JObj(f) == [t |-> "obj", f |-> f]
JList(xs) == [t |-> "list", xs |-> xs]
EmptyDict == [k \in {} |-> JNull]

\* bool(v)
Truthy(v) ==
  CASE v.t = "null" -> FALSE
    [] v.t = "num" -> v.n # 0
    [] v.t = "str" -> v.s # ""
    [] v.t = "chars" -> v.c # <<>>
    [] v.t = "obj" -> DOMAIN v.f # {}
    [] v.t = "list" -> v.xs # <<>>

\* `sub in s` for two str, over the strings of the model: the only string
\* that contains another one is a dict key iterated in place of a list item.
StrContains(s, sub) == s = sub \/ (s = "itemOffered" /\ sub = "item")

\* `k in v` raises TypeError when v is not a container
InRaises(v) == v.t \in {"null", "num"}

\* `k in v` for a str k, when it does not raise
PyIn(k, v) ==
  CASE v.t = "obj" -> k \in DOMAIN v.f
    [] v.t = "list" -> \E i \in 1..Len(v.xs) : v.xs[i] = JStr(k)
    [] v.t = "str" -> StrContains(v.s, k)
    [] v.t = "chars" -> FALSE
    [] OTHER -> FALSE

\* v[k] for a str k: TypeError unless v is a dict (KeyError when k is absent)
SubscriptExc(v, k) ==
  IF v.t = "obj" THEN (IF k \in DOMAIN v.f THEN "" ELSE "KeyError") ELSE "TypeError"

\* d.get(k, default) on a dict d
DictGet(d, k, default) == IF k \in DOMAIN d.f THEN d.f[k] ELSE default

RECURSIVE DigitChars(_)
DigitChars(n) ==
  IF n < 10 THEN <<ToString(n)>> ELSE DigitChars(n \div 10) \o <<ToString(n % 10)>>

\* str(v) by character, as the f-string of the price formats it
PyChars(v) ==
  CASE v.t = "chars" -> v.c
    [] v.t = "num" -> IF v.n < 0 THEN <<"-">> \o DigitChars(0 - v.n) ELSE DigitChars(v.n)
    [] v.t = "null" -> <<"N", "o", "n", "e">>
    [] OTHER -> <<"?">>

\* str(v) of an attribute value
PyStr(v) ==
  CASE v.t = "str" -> v.s
    [] v.t = "num" -> ToString(v.n)
    [] v.t = "null" -> "None"
    [] OTHER -> "?"

\* ------------------------------------------- extract_listing_from_json_ld
\* The first exception the body raises ("" when none); the body's
\* `except Exception` turns every one of them into a None result.
ItemExc(item_data) ==
  IF item_data.t # "obj" THEN "AttributeError"
  ELSE LET d == item_data.f IN
    IF "offers" \in DOMAIN d /\ InRaises(d.offers) THEN "TypeError"
    ELSE IF "offers" \in DOMAIN d /\ PyIn("price", d.offers)
              /\ SubscriptExc(d.offers, "price") # "" THEN SubscriptExc(d.offers, "price")
    ELSE IF "geo" \in DOMAIN d /\ d.geo.t # "obj" THEN "AttributeError"
    ELSE IF "floorSize" \in DOMAIN d /\ InRaises(d.floorSize) THEN "TypeError"
    ELSE IF "floorSize" \in DOMAIN d /\ PyIn("value", d.floorSize)
              /\ SubscriptExc(d.floorSize, "value") # "" THEN SubscriptExc(d.floorSize, "value")
    ELSE ""

ExtractPrice(d) ==
  IF "offers" \in DOMAIN d /\ PyIn("price", d.offers)
  THEN JChars(<<"$">> \o PyChars(d.offers.f.price))
  ELSE JChars(<<"N", "o", "t", " ", "a", "v", "a", "i", "l", "a", "b", "l", "e">>)

ExtractAddress(d) ==
  LET address == DictGet([f |-> d], "address", JStr("No address")) IN
  IF address.t = "obj" THEN DictGet(address, "streetAddress", JStr("No address"))
  ELSE address

ExtractLatitude(d) ==
  IF "geo" \in DOMAIN d THEN DictGet(d.geo, "latitude", JNull) ELSE JNull

ExtractLongitude(d) ==
  IF "geo" \in DOMAIN d THEN DictGet(d.geo, "longitude", JNull) ELSE JNull

\* the attributes dict as the list of its "k: v" strings, in insertion order
ExtractAttributes(d) ==
  (IF "numberOfBedrooms" \in DOMAIN d
     THEN <<"Bedrooms: " \o PyStr(d.numberOfBedrooms)>> ELSE <<>>)
  \o (IF "numberOfBathroomsTotal" \in DOMAIN d
     THEN <<"Bathrooms: " \o PyStr(d.numberOfBathroomsTotal)>> ELSE <<>>)
  \o (IF "floorSize" \in DOMAIN d /\ PyIn("value", d.floorSize)
     THEN <<"Size (sq ft): " \o PyStr(d.floorSize.f.value)>> ELSE <<>>)
  \o (IF "petsAllowed" \in DOMAIN d
     THEN <<"Pets Allowed: " \o (IF d.petsAllowed = JStr("true") THEN "Yes" ELSE "No")>>
     ELSE <<>>)
  \o (IF "leaseLength" \in DOMAIN d
     THEN <<"Lease Length: " \o PyStr(d.leaseLength)>> ELSE <<>>)

RECURSIVE JoinStars(_)
JoinStars(parts) ==
  IF parts = <<>> THEN ""
  ELSE IF Len(parts) = 1 THEN parts[1]
  ELSE parts[1] \o " *** " \o JoinStars(Tail(parts))

\* the record built on the path that raises nothing
ListingRecord(d) ==
  [title |-> DictGet([f |-> d], "name", JStr("No title")),
   url |-> DictGet([f |-> d], "url", JStr("")),
   address |-> ExtractAddress(d),
   latitude |-> ExtractLatitude(d),
   longitude |-> ExtractLongitude(d),
   price |-> ExtractPrice(d),
   info |-> JoinStars(ExtractAttributes(d)),
   description |-> DictGet([f |-> d], "description", JStr("No description"))]

\* <<>> for None, <<record>> for a record
extract_listing_from_json_ld(item_data) ==
  IF ItemExc(item_data) # "" THEN <<>> ELSE <<ListingRecord(item_data.f)>>

\* ------------------------------------- extract_listings_from_search_page
\* A script tag: text "none" (script.string is None), "invalid" (text that
\* json.loads rejects, the empty text included) or "json" (text that parses
\* to `data`).
Script(text, data) == [text |-> text, data |-> data]

\* json.loads(script.string)
json_loads(script) ==
  IF script.text = "none" THEN [exc |-> "TypeError", val |-> JNull]
  ELSE IF script.text = "invalid" THEN [exc |-> "JSONDecodeError", val |-> JNull]
  ELSE [exc |-> "", val |-> script.data]

\* `for item in data['itemListElement']` over a list: the records appended
\* to `acc` until the first exception
RECURSIVE ItemLoop(_, _)
ItemLoop(xs, acc) ==
  IF xs = <<>> THEN [exc |-> "", val |-> acc]
  ELSE LET item == Head(xs) IN
    IF InRaises(item) THEN [exc |-> "TypeError", val |-> acc]
    ELSE IF ~PyIn("item", item) THEN ItemLoop(Tail(xs), acc)
    ELSE IF SubscriptExc(item, "item") # ""
      THEN [exc |-> SubscriptExc(item, "item"), val |-> acc]
    ELSE ItemLoop(Tail(xs), acc \o extract_listing_from_json_ld(item.f.item))

\* the body of the try block for one script tag
ScriptBody(script, acc) ==
  LET loaded == json_loads(script) IN
  IF loaded.exc # "" THEN [exc |-> loaded.exc, val |-> acc]
  ELSE LET data == loaded.val IN
    IF ~(data.t = "obj" /\ "itemListElement" \in DOMAIN data.f)
      THEN [exc |-> "", val |-> acc]
    ELSE LET elems == data.f.itemListElement IN
      CASE elems.t = "list" -> ItemLoop(elems.xs, acc)
        [] elems.t = "obj" ->
             \* iterating a dict yields its keys: a key containing "item" is
             \* then subscripted with a str
             IF \E k \in DOMAIN elems.f : StrContains(k, "item")
               THEN [exc |-> "TypeError", val |-> acc]
               ELSE [exc |-> "", val |-> acc]
        [] elems.t \in {"str", "chars"} -> [exc |-> "", val |-> acc]
        [] OTHER -> [exc |-> "TypeError", val |-> acc]

\* the exceptions `except (json.JSONDecodeError, KeyError)` catches
CaughtByScriptLoop(exc) == exc \in {"", "JSONDecodeError", "KeyError"}

RECURSIVE ScriptLoop(_, _)
ScriptLoop(scripts, acc) ==
  IF scripts = <<>> THEN [exc |-> "", val |-> acc]
  ELSE LET r == ScriptBody(Head(scripts), acc) IN
    IF CaughtByScriptLoop(r.exc) THEN ScriptLoop(Tail(scripts), r.val)
    ELSE [exc |-> r.exc, val |-> <<>>]

\* content: [t |-> "none"] when get_page gave None, else
\* [t |-> "page", scripts |-> the page's JSON-LD script tags in order]
NoContent == [t |-> "none", scripts |-> <<>>]
PageContent(scripts) == [t |-> "page", scripts |-> scripts]

\* a variant without the test of line 101: BeautifulSoup(None) raises
extract_listings_without_content_test(content) ==
  IF content.t = "none" THEN [exc |-> "TypeError", val |-> <<>>]
  ELSE ScriptLoop(content.scripts, <<>>)

extract_listings_from_search_page(content) ==
  IF content.t = "none" THEN [exc |-> "", val |-> <<>>]
  ELSE ScriptLoop(content.scripts, <<>>)

\* ------------------------------------------------------------ input sets
\* an optional dict entry: <<>> leaves the key out, <<v>> sets it to v
Field(k, opt) == IF opt = <<>> THEN EmptyDict ELSE (k :> opt[1])

LatV == JNum(475600)
LonV == JNum(-527000)
Price950 == JChars(<<"9", "5", "0">>)

UrlOpts == {<<>>, <<JStr("u1")>>, <<JStr("u2")>>}
NameOpts == {<<>>, <<JStr("Apt")>>}
OffersOpts == {<<>>, <<JObj(EmptyDict)>>, <<JObj("price" :> Price950)>>, <<JNull>>}
AddressOpts ==
  {<<>>, <<JStr("10 Main St")>>, <<JObj("streetAddress" :> JStr("10 Main St"))>>,
   <<JObj(EmptyDict)>>}
GeoOpts ==
  {<<>>, <<JObj(EmptyDict)>>, <<JObj("latitude" :> LatV)>>,
   <<JObj("longitude" :> LonV)>>,
   <<JObj("latitude" :> LatV @@ "longitude" :> LonV)>>,
   <<JObj("latitude" :> JNum(0) @@ "longitude" :> LonV)>>, <<JNull>>}
BedroomOpts == {<<>>, <<JNum(2)>>}
FloorSizeOpts == {<<>>, <<JObj("value" :> JNum(700))>>, <<JNum(700)>>}

\* every item payload the extractor is tried on
ItemInputs ==
  {JNull, JStr("x")} \cup
  {JObj(Field("url", u) @@ Field("name", n) @@ Field("offers", o)
        @@ Field("address", a) @@ Field("geo", g)
        @@ Field("numberOfBedrooms", b) @@ Field("floorSize", fs)) :
     u \in UrlOpts, n \in NameOpts, o \in OffersOpts, a \in AddressOpts,
     g \in GeoOpts, b \in BedroomOpts, fs \in FloorSizeOpts}

\* the item payloads of the pages of a run
ItemA ==
  JObj("url" :> JStr("u1") @@ "name" :> JStr("Apt")
       @@ "offers" :> JObj("price" :> Price950)
       @@ "address" :> JStr("1 Water St")
       @@ "geo" :> JObj("latitude" :> LatV @@ "longitude" :> LonV))
ItemB == JObj("url" :> JStr("u1") @@ "address" :> JStr("10 Main St"))
ItemC == JObj("url" :> JStr("u2") @@ "address" :> JStr("10 Main St"))
ItemD == JObj("name" :> JStr("Apt") @@ "geo" :> JObj("latitude" :> LatV))
ItemE ==
  JObj("url" :> JStr("u2") @@ "address" :> JStr("10 Main St")
       @@ "offers" :> JObj("price" :> Price950)
       @@ "geo" :> JObj("latitude" :> JNum(0) @@ "longitude" :> LonV))
SampleItems == {ItemA, ItemB, ItemC, ItemD, ItemE}

ListItem(payload) == JObj("position" :> JNum(1) @@ "item" :> payload)

SeqsUpTo(S, n) == UNION {[1..k -> S] : k \in 0..n}

ItemList(xs) == Script("json", JObj("itemListElement" :> JList(xs)))

\* script tags that are not a well-formed item list
MalformedScripts ==
  {Script("none", JNull), Script("invalid", JNull),
   Script("json", JObj("itemListElement" :> JNum(1))),
   Script("json", JObj("itemListElement" :> ListItem(ItemA))),
   ItemList(<<JNull>>), ItemList(<<ListItem(ItemC), JNum(1)>>)}

\* script tags the loop passes over without a record and without an error
OtherScripts == {Script("json", JNull), Script("json", JObj("name" :> JStr("x")))}

WellFormedScripts ==
  {ItemList(xs) : xs \in SeqsUpTo({ListItem(ItemA), ListItem(ItemC), JObj(EmptyDict)}, MaxItems)}

PageInputs ==
  {NoContent} \cup
  {PageContent(ss) :
     ss \in SeqsUpTo(MalformedScripts \cup OtherScripts \cup WellFormedScripts, MaxBlocks)}

\* the pages a run of the scraper is given: a failed fetch, a page whose
\* only script tag has no text, and pages with one item list
RunPages ==
  {NoContent, PageContent(<<Script("none", JNull)>>)} \cup
  {PageContent(<<ItemList(xs)>>) :
     xs \in SeqsUpTo({ListItem(i) : i \in SampleItems}, MaxItems)}

\* --------------------------------------------------------- geocode_address
\* what one provider call does: raise (error or timeout), return None (not
\* found) or return a location
ProviderRaise == [t |-> "raise", lat |-> JNull, lon |-> JNull]
ProviderTimeout == [t |-> "timeout", lat |-> JNull, lon |-> JNull]
ProviderNone == [t |-> "none", lat |-> JNull, lon |-> JNull]
ProviderLoc(lat, lon) == [t |-> "loc", lat |-> JNum(lat), lon |-> JNum(lon)]
ArcgisOutcomes ==
  {ProviderRaise, ProviderTimeout, ProviderNone, ProviderLoc(475612, -527012)}
NominatimOutcomes ==
  {ProviderRaise, ProviderTimeout, ProviderNone, ProviderLoc(475615, -527126)}

\* the exception a provider call raises ("" when it returns)
ProviderExc(outcome) ==
  IF outcome.t = "raise" THEN "GeocoderServiceError"
  ELSE IF outcome.t = "timeout" THEN "GeocoderTimedOut"
  ELSE ""

NoCoordinates == [lat |-> JNull, lon |-> JNull]

\* address.replace('&apos;', "'").replace('&amp;', '&') over the addresses
\* of the model
CleanAddress(s) == IF s = "5 O&apos;Brien St" THEN "5 O'Brien St" ELSE s

\* line 74: `not address or address == 'No address'`
IsSentinelAddress(address) == ~Truthy(address) \/ address = JStr("No address")

\* a variant of the outer try body without the print of line 80: a
\* not-found answer of the primary provider raises nothing
GeocodeTryExcNoPrint(address, arcgis) ==
  IF address.t # "str" THEN "AttributeError"
  ELSE ProviderExc(arcgis)

\* lines 77-82, the outer try body: address.replace needs a str, the
\* provider may raise, and the print reads location.latitude
GeocodeTryExc(address, arcgis) ==
  IF address.t # "str" THEN "AttributeError"
  ELSE IF ProviderExc(arcgis) # "" THEN ProviderExc(arcgis)
  ELSE IF arcgis.t = "none" THEN "AttributeError"
  ELSE ""

\* lines 88-91, the inner try body: the print reads clean_address (unbound
\* when address.replace raised) and then location.latitude
GeocodeFallbackExc(address, nominatim) ==
  IF ProviderExc(nominatim) # "" THEN ProviderExc(nominatim)
  ELSE IF address.t # "str" THEN "UnboundLocalError"
  ELSE IF nominatim.t = "none" THEN "AttributeError"
  ELSE ""

\* a variant of the handlers that catches the providers' errors only
CaughtByGeocodeProviderErrors(exc) ==
  exc \in {"GeocoderServiceError", "GeocoderTimedOut"}

\* `except Exception` (lines 83 and 92) catches every exception of the bodies
CaughtByGeocode(exc) ==
  exc \in {"AttributeError", "UnboundLocalError", "GeocoderServiceError",
           "GeocoderTimedOut", "TypeError"}

\* the pair the except branch returns
GeocodeFallback(address, nominatim) ==
  IF GeocodeFallbackExc(address, nominatim) = ""
  THEN [lat |-> nominatim.lat, lon |-> nominatim.lon]
  ELSE NoCoordinates

\* exc: the exception that leaves the function ("" when it returns);
\* lat, lon: the pair returned; queries: the provider calls made
geocode_address(address, arcgis, nominatim) ==
  LET fallback == [provider |-> "nominatim", query |-> "St. John's, NL"]
      primary == IF address.t = "str"
                   THEN <<[provider |-> "arcgis", query |-> CleanAddress(address.s)]>>
                   ELSE <<>>
      e1 == GeocodeTryExc(address, arcgis)
      e2 == GeocodeFallbackExc(address, nominatim) IN
  IF IsSentinelAddress(address)
    THEN [exc |-> "", lat |-> JNull, lon |-> JNull, queries |-> <<>>]
  ELSE IF e1 = ""
    THEN [exc |-> "", lat |-> arcgis.lat, lon |-> arcgis.lon, queries |-> primary]
  ELSE IF ~CaughtByGeocode(e1)
    THEN [exc |-> e1, lat |-> JNull, lon |-> JNull, queries |-> primary]
  ELSE IF e2 # "" /\ ~CaughtByGeocode(e2)
    THEN [exc |-> e2, lat |-> JNull, lon |-> JNull, queries |-> primary \o <<fallback>>]
  ELSE [exc |-> "",
        lat |-> GeocodeFallback(address, nominatim).lat,
        lon |-> GeocodeFallback(address, nominatim).lon,
        queries |-> primary \o <<fallback>>]

\* kijiji_scraper_v2.py: one provider, no fallback
geocode_address_v2(address, arcgis) ==
  IF ProviderExc(arcgis) = "" /\ arcgis.t = "loc"
  THEN [exc |-> "", lat |-> arcgis.lat, lon |-> arcgis.lon]
  ELSE [exc |-> "", lat |-> JNull, lon |-> JNull]

\* ------------------------------------------------------ price tiers
\* Price texts are sequences of characters over digits, "$", ",", ".", " ",
\* "-" and a letter; float()'s exponent, underscore, "inf" and "nan" forms
\* need other characters.
Digits == {"0", "1", "2", "3", "4", "5", "6", "7", "8", "9"}
DigitVal(ch) == CHOOSE n \in 0..9 : ToString(n) = ch

\* re.sub(r'[^\d.]', '', price)
StripNonNumeric(c) == SelectSeq(c, LAMBDA ch : ch \in Digits \cup {"."})

\* price.replace("$", "").replace(",", "")
RemoveDollarComma(c) == SelectSeq(c, LAMBDA ch : ch \notin {"$", ","})

RECURSIVE LStrip(_)
LStrip(c) == IF c # <<>> /\ Head(c) = " " THEN LStrip(Tail(c)) ELSE c

RECURSIVE RStrip(_)
RStrip(c) ==
  IF c # <<>> /\ c[Len(c)] = " " THEN RStrip(SubSeq(c, 1, Len(c) - 1)) ELSE c

RECURSIVE BeforeDot(_)
BeforeDot(c) ==
  IF c = <<>> \/ Head(c) = "." THEN <<>> ELSE <<Head(c)>> \o BeforeDot(Tail(c))

\* the value of a digit string; every value from 99999 on is kept as 99999,
\* far above the thresholds it is compared with
RECURSIVE WholeValue(_, _)
WholeValue(ds, acc) ==
  IF ds = <<>> THEN acc
  ELSE WholeValue(Tail(ds),
                  IF acc * 10 + DigitVal(Head(ds)) > 99999 THEN 99999
                  ELSE acc * 10 + DigitVal(Head(ds)))

NotANumber == [ok |-> FALSE, neg |-> FALSE, whole |-> 0, frac |-> <<>>]

\* float(text): surrounding blanks and one sign are allowed, then digits
\* with at most one point and at least one digit; anything else is a
\* ValueError (ok = FALSE). The value is sign, whole part and the digits
\* after the point.
PyFloat(c) ==
  LET t == RStrip(LStrip(c))
      signed == t # <<>> /\ Head(t) \in {"+", "-"}
      body == IF signed THEN Tail(t) ELSE t
      digits == SelectSeq(body, LAMBDA ch : ch \in Digits)
      points == SelectSeq(body, LAMBDA ch : ch = ".")
  IN IF /\ \A i \in 1..Len(body) : body[i] \in Digits \cup {"."}
        /\ Len(points) <= 1 /\ Len(digits) >= 1
     THEN [ok |-> TRUE, neg |-> signed /\ Head(t) = "-",
           whole |-> WholeValue(BeforeDot(body), 0),
           frac |-> SubSeq(body, Len(BeforeDot(body)) + 2, Len(body))]
     ELSE NotANumber

\* v < bound and v >= bound for a float v and a positive whole bound
NumLess(v, bound) == v.neg \/ v.whole < bound
NumAtLeast(v, bound) == ~v.neg /\ v.whole >= bound

\* the float a record carries once its price was coerced
JFloat(v) == [t |-> "float", neg |-> v.neg, whole |-> v.whole, frac |-> v.frac]

\* lines 450-451: re.sub needs a str, float() a number text
MarkerColorExc(price) ==
  IF price.t # "chars" THEN "TypeError"
  ELSE IF ~PyFloat(StripNonNumeric(price.c)).ok THEN "ValueError"
  ELSE ""

\* a variant of get_marker_color whose comparisons include the thresholds
get_marker_color_le(price) ==
  LET e == MarkerColorExc(price)
      price_num == PyFloat(StripNonNumeric(price.c)) IN
  IF e \in {"ValueError", "TypeError"} THEN [exc |-> "", color |-> "blue"]
  ELSE IF e # "" THEN [exc |-> e, color |-> ""]
  ELSE IF NumLess(price_num, 801) THEN [exc |-> "", color |-> "green"]
  ELSE IF NumLess(price_num, 1201) THEN [exc |-> "", color |-> "orange"]
  ELSE [exc |-> "", color |-> "red"]

\* create_folium_map's get_marker_color(price)
get_marker_color(price) ==
  LET e == MarkerColorExc(price)
      price_num == PyFloat(StripNonNumeric(price.c)) IN
  IF e \in {"ValueError", "TypeError"} THEN [exc |-> "", color |-> "blue"]
  ELSE IF e # "" THEN [exc |-> e, color |-> ""]
  ELSE IF NumLess(price_num, 800) THEN [exc |-> "", color |-> "green"]
  ELSE IF NumLess(price_num, 1200) THEN [exc |-> "", color |-> "orange"]
  ELSE [exc |-> "", color |-> "red"]

\* Map_rent_places.py: price.replace needs a str, float() a number text
ColorSelectorExc(price) ==
  IF price.t # "chars" THEN "AttributeError"
  ELSE IF ~PyFloat(RemoveDollarComma(price.c)).ok THEN "ValueError"
  ELSE ""

\* Map_rent_places.py, color_selector(price); the bare except catches all
color_selector(price) ==
  LET e == ColorSelectorExc(price)
      p == PyFloat(RemoveDollarComma(price.c)) IN
  IF e # "" THEN [exc |-> "", color |-> "blue"]
  ELSE IF NumLess(p, 600) THEN [exc |-> "", color |-> "green"]
  ELSE IF NumAtLeast(p, 600) /\ NumLess(p, 1000) THEN [exc |-> "", color |-> "orange"]
  ELSE [exc |-> "", color |-> "red"]

\* ------------------------------------------------------- export helpers
\* DataFrame.drop_duplicates(subset=[key]), keep='first': a row stays when
\* no earlier row has its key value
RECURSIVE DropLoop(_, _, _)
DropLoop(rows, key, seen) ==
  IF rows = <<>> THEN <<>>
  ELSE IF Head(rows)[key] \in seen THEN DropLoop(Tail(rows), key, seen)
  ELSE <<Head(rows)>> \o DropLoop(Tail(rows), key, seen \cup {Head(rows)[key]})

\* keep='last' in place of keep='first'
RECURSIVE KeepLastLoop(_, _)
KeepLastLoop(rows, key) ==
  IF rows = <<>> THEN <<>>
  ELSE IF \E i \in 2..Len(rows) : rows[i][key] = Head(rows)[key]
    THEN KeepLastLoop(Tail(rows), key)
  ELSE <<Head(rows)>> \o KeepLastLoop(Tail(rows), key)

drop_duplicates_keep_last(rows, key) == KeepLastLoop(rows, key)

drop_duplicates(rows, key) == DropLoop(rows, key, {})

HasCoordinates(listing) == Truthy(listing.latitude) /\ Truthy(listing.longitude)

\* [listing for listing in listings if listing['latitude'] and listing['longitude']]
valid_listings(listings) == SelectSeq(listings, HasCoordinates)

\* map_type.lower()
Lower(map_type) == IF map_type = "GoogleMaps" THEN "googlemaps" ELSE map_type
MapTypes == {"folium", "googlemaps", "GoogleMaps", "openstreetmap", "leaflet"}

\* sample_coords, scaled by 10000
sample_coords ==
  <<<<475669, -527067>>, <<475700, -527100>>, <<475600, -527000>>,
    <<475750, -527200>>, <<475500, -526800>>, <<475800, -527300>>,
    <<475400, -526500>>, <<475900, -527500>>>>
SampleWindow == 20

\* a variant of the loop over the whole list
AddSampleCoordsToAll(listings) ==
  [i \in 1..Len(listings) |->
     IF ~HasCoordinates(listings[i])
     THEN [listings[i] EXCEPT
             !.latitude = JNum(sample_coords[((i - 1) % Len(sample_coords)) + 1][1]),
             !.longitude = JNum(sample_coords[((i - 1) % Len(sample_coords)) + 1][2])]
     ELSE listings[i]]

\* v[:50] raises nothing
Sliceable(v) == v.t \in {"str", "chars", "list"}

\* line 245, listing['title'][:50]: the position of the first record the
\* loop writes to whose title cannot be sliced, 0 when there is none
SampleCoordsRaiseAt(listings) ==
  LET raising == {i \in 1..Len(listings) :
                    /\ i <= SampleWindow /\ ~HasCoordinates(listings[i])
                    /\ ~Sliceable(listings[i].title)}
  IN IF raising = {} THEN 0
     ELSE CHOOSE i \in raising : \A j \in raising : i <= j

\* the loop over enumerate(all_listings[:20])
AddSampleCoords(listings) ==
  [i \in 1..Len(listings) |->
     IF i <= SampleWindow /\ ~HasCoordinates(listings[i])
     THEN [listings[i] EXCEPT
             !.latitude = JNum(sample_coords[((i - 1) % Len(sample_coords)) + 1][1]),
             !.longitude = JNum(sample_coords[((i - 1) % Len(sample_coords)) + 1][2])]
     ELSE listings[i]]

\* ----------------------------------------------------------------- state
VARIABLES
  pc,               \* where main() and scrape_kijiji_rentals are
  max_pages,        \* argument of scrape_kijiji_rentals
  enable_geocoding, \* argument of scrape_kijiji_rentals
  src,              \* index of base_url in base_urls_dict
  page,             \* the page number the loop is at
  all_listings,     \* the list of listing dicts
  page_log,         \* one entry per call of extract_listings_from_search_page
  extracted,        \* all_listings as it was when the page loops ended
  geo_i,            \* position of the geocoding loop
  geocoded_count,
  resolver_log,     \* one entry per call of geocode_address
  csv_rows,         \* rows of kijiji_rentals.csv
  map_out,          \* the map or list artifact written
  ex_in, ex_out,    \* an extractor under test: its input and its result
  legacy_df, legacy_df2  \* Map_rent_places.py: df and df2

runVars ==
  <<pc, max_pages, enable_geocoding, src, page, all_listings, page_log,
    extracted, geo_i, geocoded_count, resolver_log, csv_rows, map_out>>
exVars == <<ex_in, ex_out>>
legacyVars == <<legacy_df, legacy_df2>>
vars == <<runVars, exVars, legacyVars>>

\* base_urls_and_max_pages_dict, in the order of base_urls_dict
CapApartments == 5
CapForRent == 8
base_urls == <<"b-apartments-condos", "b-for-rent">>
SourceCap(s) == IF s = 1 THEN CapApartments ELSE CapForRent

Min(a, b) == IF a < b THEN a ELSE b

\* a variant of the range without the per-source cap
LastPageUncapped(s) == max_pages

\* the last page number of range(2, min(max_pages, cap) + 1)
LastPage(s) == Min(max_pages, SourceCap(s))

NoArtifact == [kind |-> "none", entries |-> <<>>]
NoExtract == [kind |-> "none", exc |-> "", val |-> <<>>]

RunIdle ==
  /\ src = 1 /\ page = 1
  /\ all_listings = <<>> /\ page_log = <<>> /\ extracted = <<>>
  /\ geo_i = 1 /\ geocoded_count = 0 /\ resolver_log = <<>>
  /\ csv_rows = <<>> /\ map_out = NoArtifact

ExIdle == ex_in = NoExtract /\ ex_out = NoExtract
LegacyIdle == legacy_df = <<>> /\ legacy_df2 = <<>>

Init ==
  /\ pc = "first"
  /\ max_pages \in 0..MaxPagesCfg
  /\ enable_geocoding \in BOOLEAN
  /\ RunIdle /\ ExIdle /\ LegacyIdle

\* ------------------------------------------------ scrape_kijiji_rentals
UrlsOf(listings) == {listings[i].url : i \in 1..Len(listings)}

\* what one call of extract_listings_from_search_page did: the records it
\* returned, how many they are and how many of them carry a url not
\* collected yet
LogEntry(s, p, r, before) ==
  [src |-> s, page |-> p, exc |-> r.exc, count |-> Len(r.val), recs |-> r.val,
   new |-> Cardinality({i \in 1..Len(r.val) : r.val[i].url \notin UrlsOf(before)})]

\* a variant that starts the geocoding pass whatever enable_geocoding says
EndSourceAlwaysGeocode ==
  IF src < Len(base_urls)
  THEN pc' = "first" /\ src' = src + 1 /\ page' = 1 /\ UNCHANGED extracted
  ELSE /\ pc' = "geocode"
       /\ extracted' = all_listings'
       /\ UNCHANGED <<src, page>>

\* the for loop over base_urls_dict moves on; after the last source the
\* geocoding pass starts, or the function returns
EndSource ==
  IF src < Len(base_urls)
  THEN pc' = "first" /\ src' = src + 1 /\ page' = 1 /\ UNCHANGED extracted
  ELSE /\ pc' = (IF enable_geocoding THEN "geocode" ELSE "returned")
       /\ extracted' = all_listings'
       /\ UNCHANGED <<src, page>>

\* an exception no handler catches ends the program
Crash == pc' = "crashed" /\ UNCHANGED <<src, page, all_listings, extracted>>

\* a variant of extend that puts the new records in front
ExtendFront(listings, page_listings) == page_listings \o listings

\* all_listings.extend(page_listings), lines 203 and 212
Extend(listings, page_listings) == listings \o page_listings

\* lines 201-203: the first page of a source, for the contents get_page
\* may give
ScrapeFirstPageOn(pages, limit) ==
  /\ pc = "first"
  /\ \E content \in pages :
       LET r == extract_listings_from_search_page(content) IN
       /\ Len(all_listings) + Len(r.val) <= limit
       /\ page_log' = Append(page_log, LogEntry(src, 1, r, all_listings))
       /\ IF r.exc # "" THEN Crash
          ELSE /\ all_listings' = Extend(all_listings, r.val)
               /\ pc' = "more" /\ page' = 2
               /\ UNCHANGED <<src, extracted>>
  /\ UNCHANGED <<max_pages, enable_geocoding, geo_i, geocoded_count,
                 resolver_log, csv_rows, map_out, exVars, legacyVars>>

ScrapeFirstPage == ScrapeFirstPageOn(RunPages, MaxListings)

\* lines 206-213: one iteration of the loop over the additional pages
ScrapeNextPageOn(pages, limit) ==
  /\ pc = "more" /\ page <= LastPage(src)
  /\ \E content \in pages :
       LET r == extract_listings_from_search_page(content) IN
       /\ Len(all_listings) + Len(r.val) <= limit
       /\ page_log' = Append(page_log, LogEntry(src, page, r, all_listings))
       /\ IF r.exc # "" THEN Crash
          ELSE IF r.val = <<>> THEN UNCHANGED all_listings /\ EndSource
          ELSE /\ all_listings' = Extend(all_listings, r.val)
               /\ pc' = "more" /\ page' = page + 1
               /\ UNCHANGED <<src, extracted>>
  /\ UNCHANGED <<max_pages, enable_geocoding, geo_i, geocoded_count,
                 resolver_log, csv_rows, map_out, exVars, legacyVars>>

ScrapeNextPage == ScrapeNextPageOn(RunPages, MaxListings)

\* line 206: the range of additional pages is used up
PagesExhausted ==
  /\ pc = "more" /\ page > LastPage(src)
  /\ UNCHANGED all_listings /\ EndSource
  /\ UNCHANGED <<max_pages, enable_geocoding, page_log, geo_i, geocoded_count,
                 resolver_log, csv_rows, map_out, exVars, legacyVars>>

\* a variant of the test of line 222 that sends every listing to the resolver
NeedsGeocodingAlways(listing) == TRUE

\* line 222: `not listing['latitude'] or not listing['longitude']`
NeedsGeocoding(listing) == ~Truthy(listing.latitude) \/ ~Truthy(listing.longitude)

\* lines 221-229: one iteration of the geocoding loop, for the answers the
\* two providers may give
GeocodeListingWith(arcgisAnswers, nominatimAnswers) ==
  /\ pc = "geocode" /\ geo_i <= Len(all_listings)
  /\ LET listing == all_listings[geo_i] IN
     IF NeedsGeocoding(listing)
     THEN \E arcgis \in arcgisAnswers, nominatim \in nominatimAnswers :
            LET g == geocode_address(listing.address, arcgis, nominatim) IN
            /\ resolver_log' =
                 Append(resolver_log,
                        [index |-> geo_i, url |-> listing.url, queries |-> g.queries,
                         lat |-> g.lat, lon |-> g.lon])
            /\ IF g.exc # "" THEN pc' = "crashed" /\ UNCHANGED <<all_listings, geocoded_count>>
               ELSE IF Truthy(g.lat) /\ Truthy(g.lon)
               THEN /\ all_listings' =
                         [all_listings EXCEPT ![geo_i].latitude = g.lat,
                                              ![geo_i].longitude = g.lon]
                    /\ geocoded_count' = geocoded_count + 1
                    /\ UNCHANGED pc
               ELSE UNCHANGED <<pc, all_listings, geocoded_count>>
     ELSE UNCHANGED <<pc, all_listings, geocoded_count, resolver_log>>
  /\ geo_i' = geo_i + 1
  /\ UNCHANGED <<max_pages, enable_geocoding, src, page, page_log, extracted,
                 csv_rows, map_out, exVars, legacyVars>>

GeocodeListing == GeocodeListingWith(ArcgisOutcomes, NominatimOutcomes)

\* lines 230-249: the loop is over; sample coordinates when nothing was
\* geocoded; return all_listings
GeocodeEnd ==
  /\ pc = "geocode" /\ geo_i > Len(all_listings)
  /\ LET stop == SampleCoordsRaiseAt(all_listings)
         sampled == AddSampleCoords(all_listings) IN
     IF geocoded_count # 0 THEN pc' = "returned" /\ UNCHANGED all_listings
     ELSE IF stop = 0 THEN pc' = "returned" /\ all_listings' = sampled
     ELSE /\ pc' = "crashed"
          /\ all_listings' = [i \in 1..Len(all_listings) |->
                                IF i <= stop THEN sampled[i] ELSE all_listings[i]]
  /\ UNCHANGED <<max_pages, enable_geocoding, src, page, page_log, extracted, geo_i,
                 geocoded_count, resolver_log, csv_rows, map_out, exVars, legacyVars>>

\* ------------------------------------------------------------------ main
save_to_csv(listings) ==
  IF listings = <<>> THEN <<>> ELSE drop_duplicates(listings, "url")

IsStr(v) == v.t \in {"str", "chars"}

\* create_folium_map / create_google_map: the artifact written, or the
\* exception raised before anything is written
MarkerMap(listings, google) ==
  LET valid == valid_listings(listings)
      shown == IF valid = <<>> THEN listings ELSE valid
      badSlice == \E i \in 1..Len(shown) : ~IsStr(shown[i].description)
      badReplace == \E i \in 1..Len(valid) :
                       ~IsStr(valid[i].title) \/ ~IsStr(valid[i].address)
  IN IF google /\ badReplace THEN [exc |-> "AttributeError", artifact |-> NoArtifact]
     ELSE IF badSlice THEN [exc |-> "TypeError", artifact |-> NoArtifact]
     ELSE IF valid = <<>> THEN [exc |-> "", artifact |-> [kind |-> "list", entries |-> listings]]
     ELSE [exc |-> "", artifact |-> [kind |-> "map", entries |-> valid]]

create_map(listings, map_type) ==
  IF Lower(map_type) = "googlemaps" THEN MarkerMap(listings, TRUE)
  ELSE IF Lower(map_type) = "openstreetmap"
    THEN [exc |-> "AttributeError", artifact |-> NoArtifact]
  ELSE MarkerMap(listings, FALSE)

\* main, line 778: nothing was scraped
NoListings ==
  /\ pc = "returned" /\ all_listings = <<>>
  /\ pc' = "done"
  /\ UNCHANGED <<max_pages, enable_geocoding, src, page, all_listings, page_log,
                 extracted, geo_i, geocoded_count, resolver_log, csv_rows, map_out,
                 exVars, legacyVars>>

\* main, lines 763-768 (the summary report only prints)
SaveToCsv ==
  /\ pc = "returned" /\ all_listings # <<>>
  /\ csv_rows' = save_to_csv(all_listings)
  /\ pc' = "map"
  /\ UNCHANGED <<max_pages, enable_geocoding, src, page, all_listings, page_log,
                 extracted, geo_i, geocoded_count, resolver_log, map_out,
                 exVars, legacyVars>>

\* main, line 771
CreateMap ==
  /\ pc = "map"
  /\ \E map_type \in MapTypes :
       LET r == create_map(all_listings, map_type) IN
       /\ map_out' = r.artifact
       /\ ex_in' = [kind |-> "map_type", val |-> JStr(map_type)]
       /\ pc' = (IF r.exc # "" THEN "crashed" ELSE "done")
  /\ UNCHANGED <<max_pages, enable_geocoding, src, page, all_listings, page_log,
                 extracted, geo_i, geocoded_count, resolver_log, csv_rows,
                 ex_out, legacyVars>>

Next ==
  \/ ScrapeFirstPage
  \/ ScrapeNextPage
  \/ PagesExhausted
  \/ GeocodeListing
  \/ GeocodeEnd
  \/ NoListings
  \/ SaveToCsv
  \/ CreateMap

Spec == Init /\ [][Next]_vars

\* ----------------------------------------------- the extractors on their own
InitExtract ==
  /\ pc = "extract"
  /\ max_pages = 0 /\ enable_geocoding = FALSE
  /\ RunIdle /\ LegacyIdle
  /\ ex_in \in {[kind |-> "item", val |-> i] : i \in ItemInputs}
              \cup {[kind |-> "page", val |-> c] : c \in PageInputs}
  /\ ex_out = NoExtract

\* extract_listing_from_json_ld(item_data)
ExtractItem ==
  /\ pc = "extract" /\ ex_in.kind = "item"
  /\ ex_out' = [kind |-> "item", exc |-> "", val |-> extract_listing_from_json_ld(ex_in.val)]
  /\ pc' = "extracted"
  /\ UNCHANGED <<max_pages, enable_geocoding, src, page, all_listings, page_log,
                 extracted, geo_i, geocoded_count, resolver_log, csv_rows, map_out,
                 ex_in, legacyVars>>

\* extract_listings_from_search_page(url), for the content get_page gave
ExtractPage ==
  /\ pc = "extract" /\ ex_in.kind = "page"
  /\ LET r == extract_listings_from_search_page(ex_in.val) IN
       ex_out' = [kind |-> "page", exc |-> r.exc, val |-> r.val]
  /\ pc' = "extracted"
  /\ UNCHANGED <<max_pages, enable_geocoding, src, page, all_listings, page_log,
                 extracted, geo_i, geocoded_count, resolver_log, csv_rows, map_out,
                 ex_in, legacyVars>>

NextExtract == ExtractItem \/ ExtractPage

SpecExtract == InitExtract /\ [][NextExtract]_vars

\* ------------------------------------------- geocode_address on its own
AddressInputs ==
  {JStr("10 Main St"), JStr("1 Water St"), JStr("5 O&apos;Brien St"),
   JStr("No address"), JStr(""), JNull, JNum(5), JList(<<JStr("10 Main St")>>)}

InitGeocode ==
  /\ pc = "extract"
  /\ max_pages = 0 /\ enable_geocoding = TRUE
  /\ RunIdle /\ LegacyIdle
  /\ ex_in \in {[kind |-> "geocode",
                 val |-> [address |-> a, arcgis |-> g, nominatim |-> n]] :
                  a \in AddressInputs, g \in ArcgisOutcomes, n \in NominatimOutcomes}
  /\ ex_out = NoExtract

\* geocode_address(address) of scraper.py, and of kijiji_scraper_v2.py with
\* the same primary provider
GeocodeAddress ==
  /\ pc = "extract" /\ ex_in.kind = "geocode"
  /\ LET g == geocode_address(ex_in.val.address, ex_in.val.arcgis, ex_in.val.nominatim)
         v2 == geocode_address_v2(ex_in.val.address, ex_in.val.arcgis) IN
       ex_out' = [kind |-> "geocode", exc |-> g.exc,
                  val |-> [lat |-> g.lat, lon |-> g.lon, queries |-> g.queries,
                           v2exc |-> v2.exc, v2lat |-> v2.lat, v2lon |-> v2.lon]]
  /\ pc' = "extracted"
  /\ UNCHANGED <<max_pages, enable_geocoding, src, page, all_listings, page_log,
                 extracted, geo_i, geocoded_count, resolver_log, csv_rows, map_out,
                 ex_in, legacyVars>>

NextGeocode == GeocodeAddress

SpecGeocode == InitGeocode /\ [][NextGeocode]_vars


\* --------------------------------------------- price tiers on their own
PriceTokens ==
  {<<",">>, <<".">>, <<" ">>, <<"-">>, <<"x">>, <<"1">>, <<"5">>,
   <<"5", "9", "9">>, <<"6", "0", "0">>, <<"7", "9", "9">>, <<"8", "0", "0">>,
   <<"9", "9", "9">>, <<"0", "0", "0">>, <<"1", "9", "9">>, <<"2", "0", "0">>}

RECURSIVE Flatten(_)
Flatten(parts) == IF parts = <<>> THEN <<>> ELSE Head(parts) \o Flatten(Tail(parts))

\* a price text, with or without the "$" the extractor puts in front, and
\* the values a price field holds when it is no text
PriceInputs ==
  {JChars(pre \o Flatten(parts)) :
     pre \in {<<>>, <<"$">>}, parts \in SeqsUpTo(PriceTokens, MaxPriceParts)}
  \cup {ExtractPrice(EmptyDict), JNull, JNum(950), JList(<<Price950>>)}

InitPrice ==
  /\ pc = "extract"
  /\ max_pages = 0 /\ enable_geocoding = FALSE
  /\ RunIdle /\ LegacyIdle
  /\ ex_in \in {[kind |-> "price", val |-> p] : p \in PriceInputs}
  /\ ex_out = NoExtract

\* the number a price text is coerced to by each of the two functions
\* (None when it is no number text)
Coerced(price, text) ==
  IF price.t = "chars" /\ PyFloat(text).ok THEN JFloat(PyFloat(text)) ELSE JNull

\* get_marker_color(price) and color_selector(price), on the price and on
\* the number coerced from it
PriceTier ==
  /\ pc = "extract" /\ ex_in.kind = "price"
  /\ LET price == ex_in.val
         chars == IF price.t = "chars" THEN price.c ELSE <<>>
         num == Coerced(price, StripNonNumeric(chars))
         num2 == Coerced(price, RemoveDollarComma(chars)) IN
       ex_out' = [kind |-> "price",
                  exc |-> get_marker_color(price).exc,
                  val |-> [color |-> get_marker_color(price).color,
                           num |-> num,
                           color_of_num |-> get_marker_color(num).color,
                           legacy_exc |-> color_selector(price).exc,
                           legacy_color |-> color_selector(price).color,
                           legacy_num |-> num2,
                           legacy_color_of_num |-> color_selector(num2).color]]
  /\ pc' = "extracted"
  /\ UNCHANGED <<max_pages, enable_geocoding, src, page, all_listings, page_log,
                 extracted, geo_i, geocoded_count, resolver_log, csv_rows, map_out,
                 ex_in, legacyVars>>

NextPrice == PriceTier

SpecPrice == InitPrice /\ [][NextPrice]_vars

\* ------------------------------------------------- the export on its own
ExportListings == {ListingRecord(i.f) : i \in SampleItems}

\* the rows of Map_rent_places.py's df, one per line of the five text files
LegacyRow(href, title) ==
  [houseLocation |-> <<475600, -527000>>, priceList |-> "$950", hrefList |-> href,
   roomNumber |-> "2", titleList |-> title]
LegacyRows == {LegacyRow(h, t) : h \in {"/a", "/b"}, t \in {"t1", "t2"}}

InitExport ==
  /\ pc = "returned"
  /\ max_pages = 0 /\ enable_geocoding = FALSE
  /\ src = 1 /\ page = 1 /\ page_log = <<>>
  /\ geo_i = 1 /\ geocoded_count = 0 /\ resolver_log = <<>>
  /\ csv_rows = <<>> /\ map_out = NoArtifact
  /\ ExIdle
  /\ legacy_df2 = <<>>
  /\ \/ all_listings \in SeqsUpTo(ExportListings, MaxRows) /\ legacy_df = <<>>
     \/ all_listings = <<>> /\ legacy_df \in SeqsUpTo(LegacyRows, MaxRows) \ {<<>>}
  /\ extracted = all_listings

\* Map_rent_places.py, lines 43-49
LegacyDropDuplicates ==
  /\ legacy_df # <<>> /\ legacy_df2 = <<>>
  /\ legacy_df2' = drop_duplicates(legacy_df, "hrefList")
  /\ UNCHANGED <<runVars, exVars, legacy_df>>

NextExport == NoListings \/ SaveToCsv \/ CreateMap \/ LegacyDropDuplicates

SpecExport == InitExport /\ [][NextExport]_vars

\* ------------------------------- the export of kijiji_scraper_v2.py
\* create_map(listings) of kijiji_scraper_v2.py: the artifact written, or
\* the exception raised before anything is written
create_map_v2(listings) ==
  LET valid == valid_listings(listings) IN
  IF valid = <<>> THEN [exc |-> "", artifact |-> NoArtifact]
  ELSE IF \E i \in 1..Len(valid) : ~IsStr(valid[i].description)
    THEN [exc |-> "TypeError", artifact |-> NoArtifact]
  ELSE [exc |-> "", artifact |-> [kind |-> "map", entries |-> valid]]

InitV2 == InitExport /\ legacy_df = <<>>

\* main of kijiji_scraper_v2.py, line 362
CreateMapV2 ==
  /\ pc = "map"
  /\ LET r == create_map_v2(all_listings) IN
       /\ map_out' = r.artifact
       /\ pc' = (IF r.exc # "" THEN "crashed" ELSE "done")
  /\ UNCHANGED <<max_pages, enable_geocoding, src, page, all_listings, page_log,
                 extracted, geo_i, geocoded_count, resolver_log, csv_rows,
                 exVars, legacyVars>>

NextV2 == NoListings \/ SaveToCsv \/ CreateMapV2

SpecV2 == InitV2 /\ [][NextV2]_vars

\* ------------------------------------- a run over one two-item page
\* an item with offers.price "950" and full geo data, and an item with no
\* price and the address "10 Main St"
PricedItem ==
  JObj("url" :> JStr("u1") @@ "name" :> JStr("Apt")
       @@ "offers" :> JObj("price" :> Price950)
       @@ "address" :> JStr("1 Water St")
       @@ "geo" :> JObj("latitude" :> JNum(475650) @@ "longitude" :> JNum(-527050)))
UnpricedItem == JObj("url" :> JStr("u2") @@ "address" :> JStr("10 Main St"))

TwoItemPage == PageContent(<<ItemList(<<ListItem(PricedItem), ListItem(UnpricedItem)>>)>>)

\* the pages of the run: the two-item page, a page with an empty item list
\* and a failed fetch
TwoItemRunPages == {TwoItemPage, PageContent(<<ItemList(<<>>)>>), NoContent}

\* (47.56, -52.70), scaled by 10000 like every coordinate of the model
StubLocation == ProviderLoc(475600, -527000)
StubArcgis == {StubLocation, ProviderNone}
StubNominatim == {ProviderNone, ProviderLoc(475615, -527126)}

InitTwoItems ==
  /\ pc = "first"
  /\ max_pages \in 0..MaxPagesCfg
  /\ enable_geocoding \in BOOLEAN
  /\ RunIdle /\ ExIdle /\ LegacyIdle

TwoItemsFirstPage == ScrapeFirstPageOn(TwoItemRunPages, MaxListings)
TwoItemsNextPage == ScrapeNextPageOn(TwoItemRunPages, MaxListings)
TwoItemsGeocode == GeocodeListingWith(StubArcgis, StubNominatim)

NextTwoItems ==
  \/ TwoItemsFirstPage
  \/ TwoItemsNextPage
  \/ PagesExhausted
  \/ TwoItemsGeocode
  \/ GeocodeEnd
  \/ NoListings
  \/ SaveToCsv
  \/ CreateMap

SpecTwoItems == InitTwoItems /\ [][NextTwoItems]_vars

\* ---------------------------------------------------------------- get_page
\* what session.get does on one attempt: a response with a status code, or
\* a requests.exceptions.RequestException (connection error, timeout)
Responses == {"200", "403", "429", "500", "RequestException"}

\* a variant of the loop test that allows one attempt more
MoreAttemptsInclusive(attempt, retries) == attempt <= retries

\* line 47: `for attempt in range(retries)`, attempt counted from 0
MoreAttempts(attempt, retries) == attempt < retries

\* a variant of the branches in which a 429 response is only logged
AfterResponseNoBackoff(status) ==
  IF status = "200" THEN "return content"
  ELSE IF status = "403" THEN "return None"
  ELSE "next attempt"

\* a variant of the branches in which a 403 response is only logged
AfterResponseRetry403(status) ==
  IF status = "200" THEN "return content"
  ELSE IF status = "429" THEN "sleep longer"
  ELSE "next attempt"

\* lines 52-62: the branch get_page takes on a status code
AfterResponse(status) ==
  IF status = "200" THEN "return content"
  ELSE IF status = "403" THEN "return None"
  ELSE IF status = "429" THEN "sleep longer"
  ELSE "next attempt"

Sleep(range) == [ev |-> "sleep", attempt |-> 0, what |-> range]
Request(attempt, outcome) == [ev |-> "request", attempt |-> attempt, what |-> outcome]

\* the sleeps and the request of one pass through the loop body
AttemptEvents(attempt, retries, outcome) ==
  <<Sleep("2-5"), Request(attempt, outcome)>>
  \o (IF outcome = "RequestException"
        THEN (IF attempt < retries - 1 THEN <<Sleep("5-10")>> ELSE <<>>)
      ELSE IF AfterResponse(outcome) = "sleep longer" THEN <<Sleep("10-20")>>
      ELSE <<>>)

\* whether the pass ends the call with a return statement
AttemptReturns(outcome) ==
  outcome # "RequestException"
    /\ AfterResponse(outcome) \in {"return content", "return None"}

GetPageState(attempt, trace, result) ==
  [kind |-> "get_page", exc |-> "",
   val |-> [attempt |-> attempt, trace |-> trace, result |-> result]]

\* the call get_page(url, retries) before its first attempt
InitGetPage ==
  /\ pc = "get_page"
  /\ max_pages = 0 /\ enable_geocoding = FALSE
  /\ RunIdle /\ LegacyIdle
  /\ ex_in \in {[kind |-> "get_page", val |-> [retries |-> r]] : r \in 0..MaxRetries}
  /\ ex_out = GetPageState(0, <<>>, "")

\* lines 47-66: one pass through the loop body
GetPageAttempt ==
  /\ pc = "get_page" /\ MoreAttempts(ex_out.val.attempt, ex_in.val.retries)
  /\ \E outcome \in Responses :
       LET attempt == ex_out.val.attempt
           trace == ex_out.val.trace \o AttemptEvents(attempt, ex_in.val.retries, outcome)
       IN IF AttemptReturns(outcome)
          THEN /\ ex_out' = GetPageState(attempt, trace,
                                         IF AfterResponse(outcome) = "return content"
                                           THEN "content" ELSE "None")
               /\ pc' = "extracted"
          ELSE /\ ex_out' = GetPageState(attempt + 1, trace, "")
               /\ pc' = "get_page"
  /\ UNCHANGED <<max_pages, enable_geocoding, src, page, all_listings, page_log,
                 extracted, geo_i, geocoded_count, resolver_log, csv_rows, map_out,
                 ex_in, legacyVars>>

\* line 68: the loop is used up
GetPageGiveUp ==
  /\ pc = "get_page" /\ ~MoreAttempts(ex_out.val.attempt, ex_in.val.retries)
  /\ ex_out' = GetPageState(ex_out.val.attempt, ex_out.val.trace, "None")
  /\ pc' = "extracted"
  /\ UNCHANGED <<max_pages, enable_geocoding, src, page, all_listings, page_log,
                 extracted, geo_i, geocoded_count, resolver_log, csv_rows, map_out,
                 ex_in, legacyVars>>

NextGetPage == GetPageAttempt \/ GetPageGiveUp

SpecGetPage == InitGetPage /\ [][NextGetPage]_vars

\* ------------------------------------ a run in which fetches may fail
\* every fetch gives the two-item page or fails for good (get_page returns
\* None after a 403 or after its last attempt)
FailingRunPages == {TwoItemPage, NoContent}

FailingFirstPage == ScrapeFirstPageOn(FailingRunPages, MaxListings)
FailingNextPage == ScrapeNextPageOn(FailingRunPages, MaxListings)

NextFailing ==
  \/ FailingFirstPage
  \/ FailingNextPage
  \/ PagesExhausted
  \/ TwoItemsGeocode
  \/ GeocodeEnd
  \/ NoListings
  \/ SaveToCsv
  \/ CreateMap

SpecFailing == InitTwoItems /\ [][NextFailing]_vars

\* ------------------------------------------- web_scraping_from_kijiji.py
\* A listing page of the legacy scraper: which of the elements the loop
\* body looks up exist (find returns None for a missing one, and .text then
\* raises), and whether reading the attribute lists raises. A text is the
\* sequence of its lines: the text of an element of listing k is the one
\* line <<field, k>>, and the title may also be a text with a line break
\* in it.
LegacyItems ==
  [address : BOOLEAN, price : BOOLEAN, attributes : BOOLEAN,
   title : {"missing", "one line", "two lines"}]

Text(line) == <<line>>

TitleText(item, k) ==
  IF item.title = "missing" THEN Text(<<"No title">>)
  ELSE IF item.title = "one line" THEN Text(<<"title", k>>)
  ELSE <<<<"title", k>>, <<"title continued", k>>>>

NoLists ==
  [addressList |-> <<>>, hrefList |-> <<>>, roomNumber |-> <<>>,
   priceList |-> <<>>, titleList |-> <<>>]

\* a variant of the loop body whose first handler is `pass`
LegacyAppendWithoutContinue(lists, item, k) ==
  [addressList |-> IF item.address THEN Append(lists.addressList, Text(<<"address", k>>))
                   ELSE lists.addressList,
   hrefList |-> IF item.address THEN Append(lists.hrefList, Text(<<"href", k>>))
                ELSE lists.hrefList,
   roomNumber |-> Append(lists.roomNumber,
                         Text(IF item.attributes THEN <<"info", k>> ELSE <<"Not given">>)),
   priceList |-> Append(lists.priceList,
                        Text(IF item.price THEN <<"price", k>> ELSE <<"Not available">>)),
   titleList |-> Append(lists.titleList, TitleText(item, k))]

\* lines 28-58: the loop body for the k-th listing
LegacyAppend(lists, item, k) ==
  IF ~item.address THEN lists
  ELSE
  [addressList |-> Append(lists.addressList, Text(<<"address", k>>)),
   hrefList |-> Append(lists.hrefList, Text(<<"href", k>>)),
   roomNumber |-> Append(lists.roomNumber,
                         Text(IF item.attributes THEN <<"info", k>> ELSE <<"Not given">>)),
   priceList |-> Append(lists.priceList,
                        Text(IF item.price THEN <<"price", k>> ELSE <<"Not available">>)),
   titleList |-> Append(lists.titleList, TitleText(item, k))]

\* lines 66-84: write(entry + "\n") for each entry; the file's lines are
\* the lines of the entries one after the other
WriteLines(entries) == Flatten(entries)

\* Map_rent_places.py, lines 19-33: one entry per line of the file
ReadLines(lines) == [n \in 1..Len(lines) |-> Text(lines[n])]

LegacyState(i, lists, files, read) ==
  [kind |-> "legacy", exc |-> "",
   val |-> [i |-> i, lists |-> lists, files |-> files, read |-> read]]

InitLegacy ==
  /\ pc = "legacy_scrape"
  /\ max_pages = 0 /\ enable_geocoding = FALSE
  /\ RunIdle /\ LegacyIdle
  /\ ex_in \in {[kind |-> "legacy", val |-> items] :
                  items \in SeqsUpTo(LegacyItems, MaxLegacyItems)}
  /\ ex_out = LegacyState(1, NoLists, NoLists, NoLists)

\* one pass through the loop over rentHouses
LegacyScrapeItem ==
  /\ pc = "legacy_scrape" /\ ex_out.val.i <= Len(ex_in.val)
  /\ ex_out' = LegacyState(ex_out.val.i + 1,
                           LegacyAppend(ex_out.val.lists, ex_in.val[ex_out.val.i],
                                        ex_out.val.i),
                           NoLists, NoLists)
  /\ UNCHANGED <<pc, max_pages, enable_geocoding, src, page, all_listings, page_log,
                 extracted, geo_i, geocoded_count, resolver_log, csv_rows, map_out,
                 ex_in, legacyVars>>

\* lines 66-84: the five files are written
LegacyWriteFiles ==
  /\ pc = "legacy_scrape" /\ ex_out.val.i > Len(ex_in.val)
  /\ ex_out' = LegacyState(ex_out.val.i, ex_out.val.lists,
                           [f \in DOMAIN NoLists |-> WriteLines(ex_out.val.lists[f])],
                           NoLists)
  /\ pc' = "legacy_written"
  /\ UNCHANGED <<max_pages, enable_geocoding, src, page, all_listings, page_log,
                 extracted, geo_i, geocoded_count, resolver_log, csv_rows, map_out,
                 ex_in, legacyVars>>

\* Map_rent_places.py, lines 19-33: the files are read back into lists
LegacyReadFiles ==
  /\ pc = "legacy_written"
  /\ ex_out' = LegacyState(ex_out.val.i, ex_out.val.lists, ex_out.val.files,
                           [f \in DOMAIN NoLists |-> ReadLines(ex_out.val.files[f])])
  /\ pc' = "extracted"
  /\ UNCHANGED <<max_pages, enable_geocoding, src, page, all_listings, page_log,
                 extracted, geo_i, geocoded_count, resolver_log, csv_rows, map_out,
                 ex_in, legacyVars>>

NextLegacy == LegacyScrapeItem \/ LegacyWriteFiles \/ LegacyReadFiles

SpecLegacy == InitLegacy /\ [][NextLegacy]_vars

\* ----------------------- development/modern_scraper_test.py, fallback finders
\* A detail page is the sequence of its elements in document order. An
\* element has a tag, at most one of the attributes class and data-testid,
\* and a text. An attribute value is the sequence of its hyphen-separated
\* parts ("item-title" is <<"item", "title">>). A text is its count of
\* leading white space, of characters from the first to the last non-blank
\* one, and of trailing white space.
AttrValues ==
  {[attr |-> "", value |-> <<>>]}
  \cup {[attr |-> "class", value |-> v] :
          v \in {<<"title">>, <<"item", "title">>, <<"heading">>, <<"address">>,
                 <<"location">>, <<"description">>, <<"content">>}}
  \cup {[attr |-> "data-testid", value |-> <<v>>] :
          v \in {"title", "address", "description"}}

PreviewLen == 200

PageTexts ==
  {[lead |-> 1, body |-> 0, trail |-> 0],
   [lead |-> 1, body |-> 5, trail |-> 1],
   [lead |-> 0, body |-> PreviewLen + 1, trail |-> 0],
   [lead |-> 60, body |-> 150, trail |-> 0]}

Elements ==
  {[tag |-> t, attr |-> a.attr, value |-> a.value, text |-> x] :
     t \in {"h1", "span", "div"}, a \in AttrValues, x \in PageTexts}

\* the CSS selectors of the finders: tag[attr*="value"], tag, [attr*="value"]
\* and .value
Sel(tag, attr, op, value) == [tag |-> tag, attr |-> attr, op |-> op, value |-> value]

Selectors(finder) ==
  IF finder = "find_title" THEN
    <<Sel("h1", "class", "*=", "title"), Sel("h1", "class", "*=", "heading"),
      Sel("h1", "", "", ""), Sel("", "data-testid", "*=", "title"),
      Sel("", "class", ".", "title")>>
  ELSE IF finder = "find_address" THEN
    <<Sel("", "class", "*=", "address"), Sel("", "data-testid", "*=", "address"),
      Sel("span", "class", "*=", "location"), Sel("", "class", ".", "address"),
      Sel("", "class", ".", "location")>>
  ELSE IF finder = "find_description" THEN
    <<Sel("", "class", "*=", "description"), Sel("", "data-testid", "*=", "description"),
      Sel("", "class", ".", "description"), Sel("div", "class", "*=", "content")>>
  ELSE
    <<Sel("", "data-testid", "*=", "description"), Sel("", "class", ".", "description"),
      Sel("", "class", "*=", "description")>>

Finders ==
  {"find_title", "find_address", "find_description", "get_detailed_listing_info"}

Matches(element, selector) ==
  /\ selector.tag = "" \/ element.tag = selector.tag
  /\ selector.attr = ""
     \/ /\ element.attr = selector.attr
        /\ IF selector.op = "."
           THEN element.value = <<selector.value>>
           ELSE \E p \in 1..Len(element.value) : element.value[p] = selector.value

\* soup.select_one: the position of the first element in document order
\* that matches, 0 for None
select_one(soup, selector) ==
  IF \E n \in 1..Len(soup) : Matches(soup[n], selector)
  THEN CHOOSE n \in 1..Len(soup) :
         /\ Matches(soup[n], selector)
         /\ \A m \in 1..(n - 1) : ~Matches(soup[m], selector)
  ELSE 0

\* element.get_text().strip() of the element at position n
Stripped(soup, n) == [el |-> n, chars |-> soup[n].text.body, dots |-> FALSE]

TextLen(text) == text.lead + text.body + text.trail

\* what a finder returns for the element it found
Found(finder, soup, n) ==
  IF finder = "find_description" /\ TextLen(soup[n].text) > PreviewLen
  THEN [el |-> n,
        chars |-> IF soup[n].text.body > PreviewLen THEN PreviewLen
                  ELSE soup[n].text.body,
        dots |-> TRUE]
  ELSE Stripped(soup, n)

\* a variant of the loop that keeps going after a match
LoopEndsNever(element) == FALSE

\* `return` / `break` in the body of `if element:`
LoopEnds(element) == element # 0

FinderState(i, consulted, result) ==
  [kind |-> "finder", exc |-> "",
   val |-> [i |-> i, consulted |-> consulted, result |-> result]]

NotFound == [el |-> 0, chars |-> 0, dots |-> FALSE]

InitFinder ==
  /\ pc = "find"
  /\ max_pages = 0 /\ enable_geocoding = FALSE
  /\ RunIdle /\ LegacyIdle
  /\ ex_in \in {[kind |-> f, val |-> soup] :
                  f \in Finders, soup \in SeqsUpTo(Elements, MaxElements)}
  /\ ex_out = FinderState(1, <<>>, NotFound)

\* one pass through `for selector in selectors`
FinderTry ==
  /\ pc = "find" /\ ex_out.val.i <= Len(Selectors(ex_in.kind))
  /\ LET i == ex_out.val.i
         element == select_one(ex_in.val, Selectors(ex_in.kind)[i])
         result == IF element # 0 THEN Found(ex_in.kind, ex_in.val, element)
                   ELSE ex_out.val.result
     IN /\ ex_out' = FinderState(i + 1, Append(ex_out.val.consulted, i), result)
        /\ pc' = IF LoopEnds(element) THEN "found" ELSE "find"
  /\ UNCHANGED <<max_pages, enable_geocoding, src, page, all_listings, page_log,
                 extracted, geo_i, geocoded_count, resolver_log, csv_rows, map_out,
                 ex_in, legacyVars>>

\* the loop ends without a match: `return None`, or the details are
\* returned without a description
FinderGiveUp ==
  /\ pc = "find" /\ ex_out.val.i > Len(Selectors(ex_in.kind))
  /\ pc' = "not found"
  /\ UNCHANGED <<max_pages, enable_geocoding, src, page, all_listings, page_log,
                 extracted, geo_i, geocoded_count, resolver_log, csv_rows, map_out,
                 ex_in, ex_out, legacyVars>>

NextFinder == FinderTry \/ FinderGiveUp

SpecFinder == InitFinder /\ [][NextFinder]_vars

\* ------------------------------------------------- a run over many pages
\* scrape_kijiji_rentals with max_pages up to the 10 of main.py, geocoding
\* off, where every fetch gives a page with one listing or fails
OneItemPage == PageContent(<<ItemList(<<ListItem(PricedItem)>>)>>)
LongRunPages == {OneItemPage, NoContent}

InitLong ==
  /\ pc = "first"
  /\ max_pages \in 0..MaxPagesLong
  /\ enable_geocoding = FALSE
  /\ RunIdle /\ ExIdle /\ LegacyIdle

LongFirstPage == ScrapeFirstPageOn(LongRunPages, MaxLongListings)
LongNextPage == ScrapeNextPageOn(LongRunPages, MaxLongListings)

NextLong == LongFirstPage \/ LongNextPage \/ PagesExhausted

SpecLong == InitLong /\ [][NextLong]_vars

\* ------------------------------------- the geocoding pass on a long list
\* Lists of up to MaxSampleListings records, of which the records at a few
\* positions carry coordinates from the page, a latitude of 0, or a title
\* that is null; the resolver finds nothing except at the positions of
\* ex_in.val.
RecordWithCoordinates == ListingRecord(PricedItem.f)
RecordWithout == ListingRecord(UnpricedItem.f)
RecordZeroLatitude == ListingRecord(ItemE.f)
RecordNullTitle == [RecordWithout EXCEPT !.title = JNull]

ListPatterns == {"none located", "some located", "zero latitude", "null title", "all located"}

PatternRecord(pattern, i) ==
  IF pattern = "all located" THEN RecordWithCoordinates
  ELSE IF pattern = "some located" /\ i \in {1, 9} THEN RecordWithCoordinates
  ELSE IF pattern = "zero latitude" /\ i \in {2, 22} THEN RecordZeroLatitude
  ELSE IF pattern = "zero latitude" /\ i = 20 THEN RecordWithCoordinates
  ELSE IF pattern = "null title" /\ i = 5 THEN RecordNullTitle
  ELSE RecordWithout

ResolverFinds == {{}, {3}, {20}, {21}}

\* an answer that is none of the sample coordinates
ResolvedLocation == ProviderLoc(475615, -527126)

InitSample ==
  /\ pc = "geocode"
  /\ max_pages = 1 /\ enable_geocoding = TRUE
  /\ src = Len(base_urls) /\ page = 2
  /\ page_log = <<>>
  /\ \E n \in 0..MaxSampleListings, pattern \in ListPatterns :
       all_listings = [i \in 1..n |-> PatternRecord(pattern, i)]
  /\ extracted = all_listings
  /\ geo_i = 1 /\ geocoded_count = 0 /\ resolver_log = <<>>
  /\ csv_rows = <<>> /\ map_out = NoArtifact
  /\ ex_in \in {[kind |-> "resolver", val |-> finds] : finds \in ResolverFinds}
  /\ ex_out = NoExtract
  /\ LegacyIdle

SampleGeocode ==
  GeocodeListingWith(IF geo_i \in ex_in.val THEN {ResolvedLocation} ELSE {ProviderNone},
                     {ProviderNone})

NextSample == SampleGeocode \/ GeocodeEnd

SpecSample == InitSample /\ [][NextSample]_vars

\* =================================================================== claims
FirstIndex(rows, key, v) ==
  CHOOSE i \in 1..Len(rows) : rows[i][key] = v /\ \A h \in 1..(i - 1) : rows[h][key] # v

\* `out` holds, for each key value of `rows`, the first row carrying it, in
\* the order in which the key values first occur
FirstSeenOutput(rows, out, key) ==
  /\ Len(out) = Cardinality({rows[i][key] : i \in 1..Len(rows)})
  /\ \A j \in 1..Len(out) :
       /\ \E i \in 1..Len(rows) : rows[i][key] = out[j][key]
       /\ out[j] = rows[FirstIndex(rows, key, out[j][key])]
  /\ \A j, k \in 1..Len(out) :
       j < k => FirstIndex(rows, key, out[j][key]) < FirstIndex(rows, key, out[k][key])

CsvWritten == pc \in {"map", "done", "crashed"}

\* C1: de-duplication. Of N records with M distinct urls the CSV rows (and
\* the legacy df2, keyed by href) are exactly M records, each the first-seen
\* record of its url, in first-seen order.
C1_DedupKeepsFirstSeen ==
  /\ CsvWritten => FirstSeenOutput(all_listings, csv_rows, "url")
  /\ legacy_df2 # <<>> => FirstSeenOutput(legacy_df, legacy_df2, "hrefList")

\* a duplicate that differs from the first record of its url was dropped
C1_Witness ==
  /\ pc = "map" /\ Len(all_listings) = 4 /\ Len(csv_rows) = 2
  /\ all_listings[1].url = all_listings[3].url
  /\ all_listings[1] # all_listings[3]
  /\ all_listings[2].url # all_listings[1].url

FetchCount(s) == Cardinality({i \in 1..Len(page_log) : page_log[i].src = s})

\* C2: for any max_pages, a source gets at most max_pages calls of
\* extract_listings_from_search_page (the bound of the claim; the run also
\* ends, see Terminated).
C2_AtMostMaxPagesFetches == \A s \in 1..Len(base_urls) : FetchCount(s) <= max_pages

Terminated == pc \in {"done", "crashed"}

\* C3: once a page of a source (the first included) yielded zero records, no
\* further page of that source is fetched.
C3_EmptyPageEndsSource ==
  \A i, j \in 1..Len(page_log) :
    (i < j /\ page_log[i].src = page_log[j].src) => page_log[i].count # 0

\* C4: a further page of a source is fetched only after a page that yielded
\* at least one record with a url not collected before, and only while the
\* page count is below max_pages.
C4_NextPageOnlyAfterNewRecord ==
  \A i, j \in 1..Len(page_log) :
    (j = i + 1 /\ page_log[i].src = page_log[j].src)
      => (page_log[i].new >= 1 /\ page_log[i].page < max_pages)

\* the part of C4 that does not rest on the first page: a page that
\* returned records, none of them new, is the last page of its source
C4_RepeatedPageEndsSource ==
  \A i, j \in 1..Len(page_log) :
    (j = i + 1 /\ page_log[i].src = page_log[j].src /\ page_log[i].page > 1)
      => page_log[i].new >= 1

\* a script tag holding an item list whose elements are all dicts
WellFormed(script) ==
  /\ script.text = "json" /\ script.data.t = "obj"
  /\ "itemListElement" \in DOMAIN script.data.f
  /\ script.data.f.itemListElement.t = "list"
  /\ \A i \in 1..Len(script.data.f.itemListElement.xs) :
       script.data.f.itemListElement.xs[i].t = "obj"

RECURSIVE WellFormedRecords(_)
WellFormedRecords(scripts) ==
  IF scripts = <<>> THEN <<>>
  ELSE (IF WellFormed(Head(scripts))
          THEN ItemLoop(Head(scripts).data.f.itemListElement.xs, <<>>).val
          ELSE <<>>)
       \o WellFormedRecords(Tail(scripts))

\* C5: a malformed script tag is skipped on its own: the call raises nothing
\* and returns the records of every well-formed tag of the page.
C5_MalformedBlockSkipped ==
  (pc = "extracted" /\ ex_in.kind = "page" /\ ex_in.val.t = "page")
    => /\ ex_out.exc = ""
       /\ ex_out.val = WellFormedRecords(ex_in.val.scripts)

IsSet(v) == v # JNull

\* C6: a record that left extraction with both coordinates set, whatever
\* their values, gets no resolver call and keeps both coordinates.
C6_SetCoordinatesUntouched ==
  \A i \in 1..Len(extracted) :
    (IsSet(extracted[i].latitude) /\ IsSet(extracted[i].longitude))
      => /\ all_listings[i].latitude = extracted[i].latitude
         /\ all_listings[i].longitude = extracted[i].longitude
         /\ \A k \in 1..Len(resolver_log) : resolver_log[k].index # i

\* C7: in every state each record has both coordinates or neither.
C7_CoordinatesBothOrNeither ==
  \A i \in 1..Len(all_listings) :
    IsSet(all_listings[i].latitude) <=> IsSet(all_listings[i].longitude)

NonEmptyUrl(listing) == listing.url.t = "str" /\ listing.url.s # ""

\* C8: every record the structured-data extractor returns has a non-empty
\* url.
C8_ExtractedUrlNonEmpty ==
  pc = "extracted" => \A i \in 1..Len(ex_out.val) : NonEmptyUrl(ex_out.val[i])

UrlAtMostOnce(rows) ==
  \A i, j \in 1..Len(rows) :
    (i < j /\ NonEmptyUrl(rows[i])) => rows[i].url # rows[j].url

\* C9: at the end of a run no url occurs twice in the CSV rows nor among the
\* map markers (or list-view entries).
C9_UrlOnceInEveryArtifact ==
  pc = "done" => UrlAtMostOnce(csv_rows) /\ UrlAtMostOnce(map_out.entries)

\* C10: geocode_address is called at most once per listing url in a run.
C10_ResolverOncePerUrl == UrlAtMostOnce(resolver_log)

\* the resolver gave up on the record of this call: the address query and
\* the city-level query were both made and no coordinate pair came back
GeocodingFailed(call) ==
  Len(call.queries) = 2 /\ ~(Truthy(call.lat) /\ Truthy(call.lon))

\* C11: a record whose geocoding failed ends the scrape with the coordinates
\* it left extraction with (absent); nothing else is written to it.
C11_FailedRecordKeepsAbsentCoordinates ==
  pc \in {"returned", "map", "done"}
    => \A k \in 1..Len(resolver_log) :
         GeocodingFailed(resolver_log[k])
           => LET i == resolver_log[k].index IN
              /\ all_listings[i].latitude = extracted[i].latitude
              /\ all_listings[i].longitude = extracted[i].longitude

\* the call geocode_address returned from
GeocodeReturned == pc = "extracted" /\ ex_out.kind = "geocode"

PrimaryFailed(arcgis) == arcgis.t \in {"raise", "timeout", "none"}

\* C12: for a real address, when the primary provider raises, times out or
\* finds nothing, the secondary provider is asked the city-level query
\* "St. John's, NL" and its coordinates are returned when it finds them.
C12_FallbackToSecondaryProvider ==
  (/\ GeocodeReturned
   /\ ex_in.val.address.t = "str" /\ ~IsSentinelAddress(ex_in.val.address)
   /\ PrimaryFailed(ex_in.val.arcgis))
    => /\ Len(ex_out.val.queries) = 2
       /\ ex_out.val.queries[1] =
            [provider |-> "arcgis", query |-> CleanAddress(ex_in.val.address.s)]
       /\ ex_out.val.queries[2] =
            [provider |-> "nominatim", query |-> "St. John's, NL"]
       /\ ex_in.val.nominatim.t = "loc"
            => /\ ex_out.val.lat = ex_in.val.nominatim.lat
               /\ ex_out.val.lon = ex_in.val.nominatim.lon

C12_Witness ==
  /\ GeocodeReturned
  /\ ex_in.val.address = JStr("10 Main St")
  /\ ex_in.val.arcgis = ProviderNone
  /\ ex_in.val.nominatim.t = "loc"
  /\ ex_out.val.lat = ex_in.val.nominatim.lat

IsPair(lat, lon) == lat.t = "num" /\ lon.t = "num"

\* C13: geocode_address lets no exception out: for every address value and
\* every outcome of the two providers it returns a pair of numbers or
\* (None, None); so does the single-provider version.
C13_GeocodeNeverRaises ==
  GeocodeReturned
    => /\ ex_out.exc = ""
       /\ IsPair(ex_out.val.lat, ex_out.val.lon)
            \/ (ex_out.val.lat = JNull /\ ex_out.val.lon = JNull)
       /\ ex_out.val.v2exc = ""
       /\ IsPair(ex_out.val.v2lat, ex_out.val.v2lon)
            \/ (ex_out.val.v2lat = JNull /\ ex_out.val.v2lon = JNull)

\* an address that is no string meets two failing lookups and None comes back
C13_Witness ==
  /\ GeocodeReturned
  /\ ex_in.val.address = JNum(5)
  /\ ex_in.val.arcgis = ProviderTimeout
  /\ ex_in.val.nominatim = ProviderNone
  /\ ex_out.exc = "" /\ ex_out.val.lat = JNull /\ ex_out.val.lon = JNull

\* C14: an item payload (a dict) always yields exactly one record, whatever
\* is missing or wrong-typed among its fields: the item is neither dropped
\* nor does the extractor raise.
C14_ItemYieldsOneRecord ==
  (pc = "extracted" /\ ex_in.kind = "item" /\ ex_in.val.t = "obj")
    => ex_out.exc = "" /\ Len(ex_out.val) = 1

PriceClassified == pc = "extracted" /\ ex_out.kind = "price"

\* the tier of a coerced price (None when the price is no number text)
\* for a lower and an upper threshold
TierOf(num, lower, upper) ==
  IF num = JNull THEN "blue"
  ELSE IF NumLess(num, lower) THEN "green"
  ELSE IF NumAtLeast(num, lower) /\ NumLess(num, upper) THEN "orange"
  ELSE "red"

C16_SameTierForTextAndNumber ==
  PriceClassified
    => /\ ex_out.val.num # JNull => ex_out.val.color_of_num = ex_out.val.color
       /\ ex_out.val.legacy_num # JNull
            => ex_out.val.legacy_color_of_num = ex_out.val.legacy_color

\* the records of the calls that returned, call after call
RECURSIVE Discovered(_)
Discovered(log) ==
  IF log = <<>> THEN <<>>
  ELSE (IF Head(log).exc = "" THEN Head(log).recs ELSE <<>>) \o Discovered(Tail(log))

\* the calls were made source after source and, within a source, page after
\* page
LogInDiscoveryOrder ==
  \A i, j \in 1..Len(page_log) :
    i < j => \/ page_log[i].src < page_log[j].src
             \/ /\ page_log[i].src = page_log[j].src
                /\ page_log[i].page < page_log[j].page

SameButCoordinates(a, b) ==
  [a EXCEPT !.latitude = b.latitude, !.longitude = b.longitude] = b

\* `out` is `rows` with some rows left out and nothing moved
InOrderOf(out, rows) ==
  \E f \in [1..Len(out) -> 1..Len(rows)] :
    /\ \A j \in 1..Len(out) : out[j] = rows[f[j]]
    /\ \A j, k \in 1..Len(out) : j < k => f[j] < f[k]

\* C17: the collected records stand in discovery order (sources in the
\* configured order, pages increasing, records as on their page), and the
\* CSV rows and the map entries are these records with some left out and
\* none moved.
C17_OutputInDiscoveryOrder ==
  /\ LogInDiscoveryOrder
  /\ Len(all_listings) = Len(Discovered(page_log))
  /\ \A i \in 1..Len(all_listings) :
       SameButCoordinates(all_listings[i], Discovered(page_log)[i])
  /\ CsvWritten => InOrderOf(csv_rows, all_listings)
  /\ pc = "done" => InOrderOf(map_out.entries, all_listings)

\* records of two sources, one of them a duplicate the CSV leaves out
C17_Witness ==
  /\ pc = "map" /\ Len(all_listings) = 3 /\ Len(csv_rows) = 2
  /\ all_listings[1] # all_listings[2]
  /\ \E i, j \in 1..Len(page_log) :
       /\ page_log[i].src # page_log[j].src
       /\ page_log[i].count > 0 /\ page_log[j].count > 0

\* the export ran to its end: the CSV was written and the map step is over
Exported == pc \in {"done", "crashed"} /\ csv_rows # <<>>

\* C18: for a non-empty record list the export writes exactly one
\* presentation artifact: the map with the records that have (truthy)
\* coordinates when there is such a record, and otherwise the list document
\* with every record.
C18_ExactlyOneArtifact ==
  Exported
    => IF valid_listings(all_listings) # <<>>
       THEN map_out = [kind |-> "map", entries |-> valid_listings(all_listings)]
       ELSE map_out = [kind |-> "list", entries |-> all_listings]

\* C19: create_map raises for none of folium, googlemaps and openstreetmap,
\* in any letter case, and writes a map or a list artifact; for any other
\* map type it writes what the folium map writes.
C19_EveryMapTypeProducesArtifact ==
  (Exported /\ ex_in.kind = "map_type")
    => /\ pc = "done"
       /\ map_out.kind \in {"map", "list"}
       /\ Lower(ex_in.val.s) \notin {"folium", "googlemaps", "openstreetmap"}
            => map_out = MarkerMap(all_listings, FALSE).artifact

\* the resolver answered (47.56, -52.70) for the record at index i
StubAnswered(i) ==
  \E k \in 1..Len(resolver_log) :
    /\ resolver_log[k].index = i
    /\ resolver_log[k].lat = StubLocation.lat /\ resolver_log[k].lon = StubLocation.lon

\* C20: the two-item page yields two records, the first with price "$950"
\* and its geo data, the second with the address "10 Main St" and no
\* price; once the geocoding pass is over and the resolver answered
\* (47.56, -52.70) for the second record, the first record still has its
\* own coordinates and was never sent to the resolver, the second has
\* exactly (47.56, -52.70), and the tier of the second's price is blue.
C20_TwoItemPageEndToEnd ==
  /\ \A k \in 1..Len(page_log) :
       page_log[k].count > 0
         => /\ page_log[k].count = 2
            /\ page_log[k].recs[1].price = JChars(<<"$", "9", "5", "0">>)
            /\ page_log[k].recs[1].latitude = JNum(475650)
            /\ page_log[k].recs[1].longitude = JNum(-527050)
            /\ page_log[k].recs[2].address = JStr("10 Main St")
            /\ page_log[k].recs[2].latitude = JNull
            /\ page_log[k].recs[2].longitude = JNull
  /\ (pc \in {"returned", "map", "done"} /\ Len(all_listings) = 2 /\ StubAnswered(2))
       => /\ all_listings[1].latitude = JNum(475650)
          /\ all_listings[1].longitude = JNum(-527050)
          /\ \A k \in 1..Len(resolver_log) : resolver_log[k].index # 1
          /\ all_listings[2].latitude = StubLocation.lat
          /\ all_listings[2].longitude = StubLocation.lon
          /\ get_marker_color(all_listings[2].price).color = "blue"

C20_Witness ==
  /\ pc = "returned" /\ Len(all_listings) = 2 /\ StubAnswered(2)
  /\ all_listings[1].price = JChars(<<"$", "9", "5", "0">>)
  /\ all_listings[2].latitude = JNum(475600)
  /\ all_listings[2].longitude = JNum(-527000)

\* the call get_page returned from, and the requests it issued
GetPageReturned == pc = "extracted" /\ ex_out.kind = "get_page"
InGetPage == ex_out.kind = "get_page"
Requests(trace) == SelectSeq(trace, LAMBDA e : e.ev = "request")
IsRequest(e, outcome) == e.ev = "request" /\ e.what = outcome

\* C22: get_page(url, retries) issues at most `retries` requests, whatever
\* the responses and network errors are, and returns None when no request
\* got a 200 response; extract_listings_from_search_page then returns an
\* empty list.
C22_AtMostRetriesRequests ==
  InGetPage
    => /\ Len(Requests(ex_out.val.trace)) <= ex_in.val.retries
       /\ (GetPageReturned
             /\ \A i \in 1..Len(ex_out.val.trace) : ~IsRequest(ex_out.val.trace[i], "200"))
            => /\ ex_out.val.result = "None"
               /\ extract_listings_from_search_page(NoContent) = [exc |-> "", val |-> <<>>]

\* three attempts, a network error among them, none with a 200 response
C22_Witness ==
  /\ GetPageReturned /\ ex_in.val.retries = 3
  /\ Len(Requests(ex_out.val.trace)) = 3
  /\ \E i \in 1..Len(ex_out.val.trace) : IsRequest(ex_out.val.trace[i], "RequestException")
  /\ \E i \in 1..Len(ex_out.val.trace) : IsRequest(ex_out.val.trace[i], "500")
  /\ ex_out.val.result = "None"

\* C23, as stated: every 429 response is followed by the longer sleep and
\* then by another request, whichever attempt it arrives on.
C23_Every429IsRetried ==
  GetPageReturned
    => \A i \in 1..Len(ex_out.val.trace) :
         IsRequest(ex_out.val.trace[i], "429")
           => /\ i < Len(ex_out.val.trace)
              /\ ex_out.val.trace[i + 1] = Sleep("10-20")
              /\ \E j \in (i + 1)..Len(ex_out.val.trace) : ex_out.val.trace[j].ev = "request"

\* C23, amended: every 429 response is followed by the longer sleep; the
\* next attempt's request follows when the 429 arrived before the last of
\* the `retries` attempts, and on the last attempt the call returns None
\* with no further request.
C23_429BacksOffAndRetriesWhileAttemptsRemain ==
  GetPageReturned
    => \A i \in 1..Len(ex_out.val.trace) :
         IsRequest(ex_out.val.trace[i], "429")
           => /\ i < Len(ex_out.val.trace)
              /\ ex_out.val.trace[i + 1] = Sleep("10-20")
              /\ IF ex_out.val.trace[i].attempt < ex_in.val.retries - 1
                 THEN /\ i + 3 <= Len(ex_out.val.trace)
                      /\ ex_out.val.trace[i + 2] = Sleep("2-5")
                      /\ ex_out.val.trace[i + 3].ev = "request"
                      /\ ex_out.val.trace[i + 3].attempt = ex_out.val.trace[i].attempt + 1
                 ELSE /\ i + 1 = Len(ex_out.val.trace)
                      /\ ex_out.val.result = "None"

\* a 429 on the first attempt, retried, and a 429 on the last attempt
C23_Witness ==
  /\ GetPageReturned /\ ex_in.val.retries = 2
  /\ Len(ex_out.val.trace) = 6
  /\ IsRequest(ex_out.val.trace[2], "429")
  /\ IsRequest(ex_out.val.trace[5], "429")
  /\ ex_out.val.trace[6] = Sleep("10-20")

\* C24: a 403 response ends the call at once: get_page returns None and
\* the 403 request is the last thing it did.
C24_403ReturnsNoneAtOnce ==
  InGetPage
    => \A i \in 1..Len(ex_out.val.trace) :
         IsRequest(ex_out.val.trace[i], "403")
           => /\ i = Len(ex_out.val.trace)
              /\ GetPageReturned /\ ex_out.val.result = "None"

\* a 403 on the first of three attempts
C24_Witness ==
  /\ GetPageReturned /\ ex_in.val.retries = 3
  /\ Len(ex_out.val.trace) = 2
  /\ IsRequest(ex_out.val.trace[2], "403")
  /\ ex_out.val.result = "None"

ScrapingOver == pc \in {"geocode", "returned", "map", "done"}

\* the fetch of the k-th call failed: in a run whose pages all hold two
\* items, these are the calls that returned no record
FetchFailed(k) == page_log[k].count = 0

\* C21: a page whose fetch failed for good (get_page returned None) does
\* not end the run: the call raises nothing (a run that stops after it
\* stops in the export, after the CSV was written), every source has been
\* scraped when the scraping loop is over, and the records collected so
\* far all stay in the list, in place.
C21_FailedFetchDoesNotEndBatch ==
  /\ \A k \in 1..Len(page_log) :
       FetchFailed(k)
         => /\ page_log[k].exc = ""
            /\ (k = Len(page_log) /\ pc = "crashed") => csv_rows # <<>>
  /\ ScrapingOver
       => \A s \in 1..Len(base_urls) : \E k \in 1..Len(page_log) : page_log[k].src = s
  /\ Len(all_listings) = Len(Discovered(page_log))
  /\ \A i \in 1..Len(all_listings) :
       SameButCoordinates(all_listings[i], Discovered(page_log)[i])

\* the second page of the first source failed after the first page gave two
\* records; the second source was scraped and the two records are returned
C21_Witness ==
  /\ pc = "returned" /\ Len(all_listings) = 2
  /\ Len(page_log) >= 3
  /\ page_log[1].src = 1 /\ page_log[1].count = 2
  /\ page_log[2].src = 1 /\ FetchFailed(2)
  /\ page_log[3].src = 2

\* C25: a geocode call that fails for a record's address is retried: the
\* address query is sent to the provider again before the record is given
\* up, as get_page sends its request again.
C25_FailingGeocodeIsRetried ==
  (/\ GeocodeReturned
   /\ ex_in.val.address.t = "str" /\ ~IsSentinelAddress(ex_in.val.address)
   /\ PrimaryFailed(ex_in.val.arcgis))
    => \E i, j \in 1..Len(ex_out.val.queries) :
         /\ i < j
         /\ ex_out.val.queries[i].provider = "arcgis"
         /\ ex_out.val.queries[j] = ex_out.val.queries[i]

\* the listing an entry or a line comes from (0 for a sentinel)
ListingOf(line) == IF Len(line) = 2 THEN line[2] ELSE 0

\* the five lists have one length, and the entries at each position are
\* those of one listing
ListsAligned(lists) ==
  /\ \A f \in DOMAIN lists : Len(lists[f]) = Len(lists.hrefList)
  /\ \A n \in 1..Len(lists.hrefList), f \in DOMAIN lists :
       ListingOf(lists[f][n][1]) \in {0, ListingOf(lists.hrefList[n][1])}

\* the five files have one line count, and the lines at each position are
\* those of one listing
FilesAligned(files) ==
  /\ \A f \in DOMAIN files : Len(files[f]) = Len(files.hrefList)
  /\ \A n \in 1..Len(files.hrefList), f \in DOMAIN files :
       ListingOf(files[f][n]) \in {0, ListingOf(files.hrefList[n])}

\* C26: after any sequence of listing pages the five lists have equal
\* length with entry i of each from the same listing, and so the five
\* files have the same line count and ordering, and the lists read back
\* from them are the lists written.
C26_LegacyListsAndFilesAligned ==
  ex_out.kind = "legacy"
    => /\ ListsAligned(ex_out.val.lists)
       /\ pc \in {"legacy_written", "extracted"} => FilesAligned(ex_out.val.files)
       /\ pc = "extracted" => ex_out.val.read = ex_out.val.lists

\* the part of C26 about the lists in memory
C26_ListsAlignedInMemory == ex_out.kind = "legacy" => ListsAligned(ex_out.val.lists)

\* the candidates of the running finder that match an element of the page
MatchingCandidates ==
  {j \in 1..Len(Selectors(ex_in.kind)) :
     select_one(ex_in.val, Selectors(ex_in.kind)[j]) # 0}

FirstMatching == CHOOSE j \in MatchingCandidates : \A k \in MatchingCandidates : j <= k

FinderOver == ex_out.kind = "finder" /\ pc \in {"found", "not found"}

\* the candidates were consulted in the listed order up to the first one
\* that matched, and none after it; without a match the field is absent
FirstMatchWins ==
  /\ pc = "found" <=> MatchingCandidates # {}
  /\ pc = "found"
       => /\ ex_out.val.consulted = [j \in 1..FirstMatching |-> j]
          /\ ex_out.val.result.el
               = select_one(ex_in.val, Selectors(ex_in.kind)[FirstMatching])
  /\ pc = "not found"
       => /\ ex_out.val.consulted = [j \in 1..Len(Selectors(ex_in.kind)) |-> j]
          /\ ex_out.val.result = NotFound

\* C27 (as stated): each fallback finder consults its candidates in the
\* listed order, returns the text of the first candidate that matches,
\* consults no candidate after it, and leaves the field absent when no
\* candidate matches.
C27_FirstMatchTextIsReturned ==
  FinderOver
    => /\ FirstMatchWins
       /\ pc = "found"
            => /\ ~ex_out.val.result.dots
               /\ ex_out.val.result.chars
                    = ex_in.val[ex_out.val.result.el].text.body

\* C27 (amended): first match wins as stated, and the value returned is
\* the stripped text of the matched element, blank or not, except that
\* find_description returns the first 200 characters of the stripped text
\* followed by "..." when the unstripped text is longer than 200
\* characters.
C27_FirstMatchWinsDescriptionCut ==
  FinderOver
    => /\ FirstMatchWins
       /\ pc = "found"
            => LET text == ex_in.val[ex_out.val.result.el].text
                   cut == /\ ex_in.kind = "find_description"
                          /\ text.lead + text.body + text.trail > PreviewLen
               IN /\ ex_out.val.result.dots = cut
                  /\ ex_out.val.result.chars
                       = IF cut /\ text.body > PreviewLen THEN PreviewLen
                         ELSE text.body

\* find_description stopped at its second candidate, whose long text it
\* cut, while a later candidate matches another element
C27_Witness ==
  /\ FinderOver /\ pc = "found" /\ ex_in.kind = "find_description"
  /\ Len(ex_out.val.consulted) = 2
  /\ ex_out.val.result.dots
  /\ \E j \in MatchingCandidates :
       /\ j > 2
       /\ select_one(ex_in.val, Selectors(ex_in.kind)[j]) # ex_out.val.result.el

\* the source s has been scraped, or is past its first page
SourceStarted(s) == src > s \/ (src = s /\ pc # "first")

PageBudget(s) ==
  LET cap == IF s = 1 THEN 5 ELSE 8
      most == IF max_pages < cap THEN max_pages ELSE cap
  IN IF most < 1 THEN 1 ELSE most

\* C28: the number of pages fetched for a source is at least 1 (once the
\* source has been started) and at most max(1, min(max_pages, cap)), with
\* cap 5 for apartments-condos and 8 for for-rent.
C28_PagesFetchedWithinCap ==
  \A s \in 1..Len(base_urls) :
    /\ FetchCount(s) <= PageBudget(s)
    /\ SourceStarted(s) => FetchCount(s) >= 1

\* max_pages = 10 and both sources used their whole budget
C28_Witness ==
  /\ max_pages = 10 /\ pc = "returned"
  /\ FetchCount(1) = 5 /\ FetchCount(2) = 8

\* C29: with enable_geocoding = False no resolver call is made and the
\* records are, at every point of the run and on return, exactly the
\* records the extractor produced, in order: no coordinate is changed and
\* no sample coordinates are added.
C29_NoGeocodingLeavesRecordsAlone ==
  ~enable_geocoding
    => /\ resolver_log = <<>>
       /\ geocoded_count = 0
       /\ pc # "geocode"
       /\ all_listings = Discovered(page_log)

\* a run without geocoding that returned a record lacking coordinates
C29_Witness ==
  /\ ~enable_geocoding /\ pc = "done"
  /\ \E i \in 1..Len(all_listings) : ~HasCoordinates(all_listings[i])
  /\ \E i \in 1..Len(all_listings) : HasCoordinates(all_listings[i])

SampleCoordinates ==
  {<<JNum(sample_coords[k][1]), JNum(sample_coords[k][2])>> : k \in 1..Len(sample_coords)}

\* the step writes sample coordinates to record i
ReceivesSample(i) ==
  /\ all_listings'[i] # all_listings[i]
  /\ <<all_listings'[i].latitude, all_listings'[i].longitude>> \in SampleCoordinates

====
